---- MODULE Spec2Model ----
(***************************************************************************)
(* The LLVM code generator of ARIA (src/src/codegen/llvm.rs) as a state    *)
(* machine: one compilation session (LLVMCodegen) lowering one MIR         *)
(* Program into one module.  The session's fields are the variables, every *)
(* step of compile is an action, and the emitted module is kept as data    *)
(* (functions, their native blocks, the instructions of each block) so     *)
(* that the structural properties of the emitted IR are state predicates.  *)
(***************************************************************************)
EXTENDS Integers, Sequences, FiniteSets, TLC

(***************************************************************************)
(* Bounds of the checked input space.                                      *)
(***************************************************************************)
MaxFuncs == 2
MaxParams == 2
MaxLocals == 2
MaxBlocks == 2
MaxStmts == 2
MaxTargets == 3
MaxEmits == 3
MaxOps == 3

(***************************************************************************)
(* MIR (crate::mir, consumed by the code generator).                       *)
(***************************************************************************)
Copy(l) == [kind |-> "Copy", local |-> l]
Move(l) == [kind |-> "Move", local |-> l]
Constant(c) == [kind |-> "Constant", value |-> c]

Use(o) == [kind |-> "Use", operand |-> o]
BinaryOp(op, l, r) == [kind |-> "BinaryOp", op |-> op, left |-> l, right |-> r]
UnaryOp(op, o) == [kind |-> "UnaryOp", op |-> op, operand |-> o]
Call(name, args) == [kind |-> "Call", func |-> name, args |-> args]
\* Any Rvalue variant that compile_rvalue has no arm for.
OtherRvalue == [kind |-> "Other"]

Assign(l, rv) == [kind |-> "Assign", place |-> l, rvalue |-> rv]
Nop == [kind |-> "Nop"]

\* Option<Operand> is a sequence of length at most one.
Return(opt) == [kind |-> "Return", operand |-> opt]
Goto(t) == [kind |-> "Goto", target |-> t]
SwitchInt(d, ts, o) ==
  [kind |-> "SwitchInt", discriminant |-> d, targets |-> ts, otherwise |-> o]
Unreachable == [kind |-> "Unreachable"]

Block(ss, t) == [statements |-> ss, terminator |-> t]

(***************************************************************************)
(* CodegenError { message }: the message is prefix \o detail.              *)
(***************************************************************************)
NoErr == [prefix |-> "", detail |-> ""]
Err(p, d) == [prefix |-> p, detail |-> d]

(***************************************************************************)
(* Native IR values.  A 64-bit pattern is four 16-bit limbs, most          *)
(* significant first.                                                      *)
(***************************************************************************)
Limb == 2 ^ 16

\* `c as u64` for an i64 c of small magnitude: two's complement.
AsU64(c) ==
  IF c >= 0 THEN <<0, 0, 0, c>> ELSE <<Limb - 1, Limb - 1, Limb - 1, Limb + c>>

\* i64_type().const_int(bits, _): a 64-bit constant with that pattern.
ConstI64(c) == [kind |-> "const", ty |-> "i64", bits |-> AsU64(c)]
\* The result of the instruction at index ix of block bb of function fn.
InstVal(fn, bb, ix) == [kind |-> "inst", fn |-> fn, bb |-> bb, ix |-> ix]
\* The i-th formal argument (0-based) of function fn.
ParamVal(fn, i) == [kind |-> "param", fn |-> fn, ix |-> i]
NoVal == [kind |-> "none"]

lower_type(ty) ==
  CASE ty \in {"Int", "I64"} -> "i64"
    [] ty = "I32" -> "i32"
    [] ty = "I16" -> "i16"
    [] ty = "I8" -> "i8"
    [] ty = "Bool" -> "i1"
    [] ty \in {"Float", "F64"} -> "f64"
    [] ty = "F32" -> "f32"
    [] ty = "Unit" -> "i8"
    [] ty = "Str" -> "ptr"
    [] OTHER -> "i64"

\* (mutant) An i8 return type (Unit's) declares the function void.
FnReturnType_VoidUnit(return_type) ==
  IF return_type = "i8" THEN "void"
  ELSE IF return_type \in {"i64", "i32", "i16", "i1", "f64", "f32", "ptr"}
  THEN return_type
  ELSE "i64"

\* The return type of the fn_type built in declare_function.
FnReturnType(return_type) ==
  IF return_type \in {"i64", "i32", "i16", "i8", "i1", "f64", "f32", "ptr"}
  THEN return_type
  ELSE "i64"

(***************************************************************************)
(* Session state (struct LLVMCodegen) and the position of compile in its   *)
(* code.                                                                   *)
(*   program           the argument of compile                             *)
(*   module            the functions added to the module, in order; each   *)
(*                     has its native blocks in order, each block its      *)
(*                     instructions in order.  A FunctionValue is an index *)
(*                     into module, a BasicBlock a pair [fn, bb]           *)
(*   functions         name -> FunctionValue                               *)
(*   locals            local index -> slot (the alloca's result)           *)
(*   current_function  0 is None                                           *)
(*   builder           the insertion block, [fn |-> 0, bb |-> 0] when unset *)
(*   blocks            compile_function's map block index -> BasicBlock    *)
(*   pc, fi, bi, si    where compile is: the loop it is in and the         *)
(*                     function, block and statement it is at (1-based)    *)
(*   result            what compile returned, once pc = "done"             *)
(* and, outside the session, what the emitters gave their caller:          *)
(*   emits             the emitter calls made so far, each with what it    *)
(*                     returned                                            *)
(*   files             path -> the content written there                   *)
(* and, in the runtime library, one string map (struct FormaMap):          *)
(*   inner             the map's HashMap<String, String>; a String is the  *)
(*                     sequence of its code points                         *)
(*   log               the calls made on the map so far, each with its     *)
(*                     arguments and what it returned                      *)
(***************************************************************************)
VARIABLES program, module, functions, locals, current_function, builder,
          blocks, pc, fi, bi, si, result, emits, files, inner, log

vars == <<program, module, functions, locals, current_function, builder,
          blocks, pc, fi, bi, si, result, emits, files, inner, log>>

EmptyMap == [x \in {} |-> 0]
NoPos == [fn |-> 0, bb |-> 0]
Running == [status |-> "running", err |-> NoErr]
Ok == [status |-> "ok", err |-> NoErr]
Failed(e) == [status |-> "err", err |-> e]

\* The instructions of the block the builder is positioned at.
CurIns == module[builder.fn].blocks[builder.bb].instrs

(***************************************************************************)
(* Instructions.                                                           *)
(***************************************************************************)
Alloca(ty, name) == [op |-> "alloca", ty |-> ty, name |-> name]
Store(ptr, val) == [op |-> "store", ptr |-> ptr, val |-> val]
Load(ty, ptr) == [op |-> "load", ty |-> ty, ptr |-> ptr]
Arith(op, lhs, rhs) == [op |-> op, lhs |-> lhs, rhs |-> rhs]
ICmp(pred, lhs, rhs) == [op |-> "icmp", pred |-> pred, lhs |-> lhs, rhs |-> rhs]
Unary(op, val) == [op |-> op, val |-> val]
CallInst(callee, args) == [op |-> "call", callee |-> callee, args |-> args]
Ret(opt) == [op |-> "ret", val |-> opt]
Br(dest) == [op |-> "br", dest |-> dest]
CondBr(cond, then, else) ==
  [op |-> "condbr", cond |-> cond, then |-> then, else |-> else]
Switch(val, default, cases) ==
  [op |-> "switch", val |-> val, default |-> default, cases |-> cases]
UnreachableInst == [op |-> "unreachable"]

TerminatorOps == {"ret", "br", "condbr", "switch", "unreachable"}

\* The value of the instruction appended next to ins in the builder's block.
NextVal(ins) == InstVal(builder.fn, builder.bb, Len(ins) + 1)

(***************************************************************************)
(* compile_operand .. compile_terminator.  Each takes the instructions     *)
(* ins of the builder's block and returns them with what it emitted, an    *)
(* error (NoErr when Ok) and, for a value, the value.                      *)
(***************************************************************************)
compile_operand(ins, operand) ==
  IF operand.kind \in {"Copy", "Move"}
  THEN IF operand.local \in DOMAIN locals
       THEN [ins |-> Append(ins, Load("i64", locals[operand.local])),
             err |-> NoErr, val |-> NextVal(ins)]
       ELSE [ins |-> ins, err |-> Err("Unknown local: ", ToString(operand.local)),
             val |-> NoVal]
  ELSE [ins |-> ins, err |-> NoErr, val |-> ConstI64(operand.value)]

ArithOps == [Add |-> "add", Sub |-> "sub", Mul |-> "mul", Div |-> "sdiv",
             Mod |-> "srem", And |-> "and", Or |-> "or"]
CmpOps == [Eq |-> "eq", Ne |-> "ne", Lt |-> "slt", Le |-> "sle", Gt |-> "sgt",
           Ge |-> "sge"]

compile_binop(ins, op, lhs, rhs) ==
  IF op \in DOMAIN ArithOps
  THEN [ins |-> Append(ins, Arith(ArithOps[op], lhs, rhs)), err |-> NoErr,
        val |-> NextVal(ins)]
  ELSE IF op \in DOMAIN CmpOps
  THEN [ins |-> Append(ins, ICmp(CmpOps[op], lhs, rhs)), err |-> NoErr,
        val |-> NextVal(ins)]
  ELSE [ins |-> ins, err |-> Err("Unsupported binary operator: ", op),
        val |-> NoVal]

compile_unaryop(ins, op, val) ==
  [ins |-> Append(ins, Unary(IF op = "Neg" THEN "neg" ELSE "not", val)),
   err |-> NoErr, val |-> NextVal(ins)]

\* args.iter().map(compile_operand).collect::<Result<Vec<_>, _>>(): the
\* operands in order, stopping at the first error.  acc are the values so far.
RECURSIVE compile_args(_, _, _)
compile_args(ins, args, acc) ==
  IF args = <<>>
  THEN [ins |-> ins, err |-> NoErr, vals |-> acc]
  ELSE LET a == compile_operand(ins, Head(args))
       IN IF a.err # NoErr
          THEN [ins |-> a.ins, err |-> a.err, vals |-> acc]
          ELSE compile_args(a.ins, Tail(args), Append(acc, a.val))

\* (mutant) The arguments are compiled before the callee is looked up.
compile_call_ArgsFirst(ins, func_name, args) ==
  LET compiled_args == compile_args(ins, args, <<>>)
  IN IF compiled_args.err # NoErr
     THEN [ins |-> compiled_args.ins, err |-> compiled_args.err, val |-> NoVal]
     ELSE IF func_name \notin DOMAIN functions
     THEN [ins |-> compiled_args.ins,
           err |-> Err("Unknown function: ", func_name), val |-> NoVal]
     ELSE [ins |-> Append(compiled_args.ins,
                          CallInst(functions[func_name], compiled_args.vals)),
           err |-> NoErr, val |-> NextVal(compiled_args.ins)]

compile_call(ins, func_name, args) ==
  IF func_name \notin DOMAIN functions
  THEN [ins |-> ins, err |-> Err("Unknown function: ", func_name), val |-> NoVal]
  ELSE LET fn_value == functions[func_name]
           compiled_args == compile_args(ins, args, <<>>)
           withCall == Append(compiled_args.ins,
                              CallInst(fn_value, compiled_args.vals))
       IN IF compiled_args.err # NoErr
          THEN [ins |-> compiled_args.ins, err |-> compiled_args.err,
                val |-> NoVal]
          ELSE IF module[fn_value].ret = "void"
          THEN [ins |-> withCall, err |-> Err("Function returned void", ""),
                val |-> NoVal]
          ELSE [ins |-> withCall, err |-> NoErr,
                val |-> NextVal(compiled_args.ins)]

compile_rvalue(ins, rvalue) ==
  CASE rvalue.kind = "Use" -> compile_operand(ins, rvalue.operand)
    [] rvalue.kind = "BinaryOp" ->
         LET lhs == compile_operand(ins, rvalue.left)
             rhs == compile_operand(lhs.ins, rvalue.right)
         IN IF lhs.err # NoErr THEN lhs
            ELSE IF rhs.err # NoErr THEN rhs
            ELSE compile_binop(rhs.ins, rvalue.op, lhs.val, rhs.val)
    [] rvalue.kind = "UnaryOp" ->
         LET val == compile_operand(ins, rvalue.operand)
         IN IF val.err # NoErr THEN val
            ELSE compile_unaryop(val.ins, rvalue.op, val.val)
    [] rvalue.kind = "Call" -> compile_call(ins, rvalue.func, rvalue.args)
    [] OTHER -> [ins |-> ins, err |-> Err("Unsupported rvalue: ", rvalue.kind),
                 val |-> NoVal]

compile_statement(ins, stmt) ==
  IF stmt.kind = "Assign"
  THEN LET value == compile_rvalue(ins, stmt.rvalue)
       IN IF value.err # NoErr
          THEN [ins |-> value.ins, err |-> value.err]
          ELSE IF stmt.place \in DOMAIN locals
          THEN [ins |-> Append(value.ins, Store(locals[stmt.place], value.val)),
                err |-> NoErr]
          ELSE [ins |-> value.ins, err |-> NoErr]
  ELSE [ins |-> ins, err |-> NoErr]

\* Terminator::Return(operand)
compile_return(ins, operand) ==
  IF operand # <<>>
  THEN LET val == compile_operand(ins, operand[1])
       IN IF val.err # NoErr
          THEN [ins |-> val.ins, err |-> val.err]
          ELSE [ins |-> Append(val.ins, Ret(<<val.val>>)), err |-> NoErr]
  ELSE [ins |-> Append(ins, Ret(<<>>)), err |-> NoErr]

\* (mutant) A Goto to an index with no block is an error.
compile_goto_Strict(ins, target) ==
  IF target \in DOMAIN blocks
  THEN [ins |-> Append(ins, Br(blocks[target])), err |-> NoErr]
  ELSE [ins |-> ins, err |-> Err("Missing target block", "")]

\* Terminator::Goto(target)
compile_goto(ins, target) ==
  IF target \in DOMAIN blocks
  THEN [ins |-> Append(ins, Br(blocks[target])), err |-> NoErr]
  ELSE [ins |-> ins, err |-> NoErr]

\* (mutant) The branch goes to else_bb when the comparison is true.
CondBranch_Swapped(ins, val, then_bb, else_bb) ==
  LET zero == ConstI64(0)
      cond == NextVal(ins)
  IN Append(Append(ins, ICmp("ne", val, zero)), CondBr(cond, else_bb, then_bb))

\* The single-target case: compare val with zero, branch on the result.
CondBranch(ins, val, then_bb, else_bb) ==
  LET zero == ConstI64(0)
      cond == NextVal(ins)
  IN Append(Append(ins, ICmp("ne", val, zero)), CondBr(cond, then_bb, else_bb))

\* (mutant) A case is keyed by the magnitude of its value.
SwitchCases_Magnitude(targets) ==
  LET bound == SelectSeq(targets, LAMBDA t : t[2] \in DOMAIN blocks)
      abs(c) == IF c >= 0 THEN c ELSE 0 - c
  IN [i \in 1..Len(bound) |-> <<ConstI64(abs(bound[i][1])), blocks[bound[i][2]]>>]

\* The cases added to a switch: one per target whose block is bound, in
\* input order, keyed by const_int(value as u64, false).
SwitchCases(targets) ==
  LET bound == SelectSeq(targets, LAMBDA t : t[2] \in DOMAIN blocks)
  IN [i \in 1..Len(bound) |-> <<ConstI64(bound[i][1]), blocks[bound[i][2]]>>]

\* Terminator::SwitchInt { discriminant, targets, otherwise }
compile_switch(ins, discriminant, targets, otherwise) ==
  LET val == compile_operand(ins, discriminant)
  IN IF val.err # NoErr
     THEN [ins |-> val.ins, err |-> val.err]
     ELSE IF otherwise \notin DOMAIN blocks
     THEN [ins |-> val.ins, err |-> Err("Missing otherwise block", "")]
     ELSE IF Len(targets) = 1
     THEN IF targets[1][2] \notin DOMAIN blocks
          THEN [ins |-> val.ins, err |-> Err("Missing then block", "")]
          ELSE [ins |-> CondBranch(val.ins, val.val, blocks[targets[1][2]],
                                   blocks[otherwise]),
                err |-> NoErr]
     ELSE [ins |-> Append(val.ins, Switch(val.val, blocks[otherwise],
                                          SwitchCases(targets))),
           err |-> NoErr]

\* (mutant) Unreachable emits nothing.
compile_unreachable_Omitted(ins) == [ins |-> ins, err |-> NoErr]

\* Terminator::Unreachable
compile_unreachable(ins) == [ins |-> Append(ins, UnreachableInst), err |-> NoErr]

compile_terminator(ins, terminator) ==
  CASE terminator.kind = "Return" -> compile_return(ins, terminator.operand)
    [] terminator.kind = "Goto" -> compile_goto(ins, terminator.target)
    [] terminator.kind = "SwitchInt" ->
         compile_switch(ins, terminator.discriminant, terminator.targets,
                        terminator.otherwise)
    [] terminator.kind = "Unreachable" -> compile_unreachable(ins)

(***************************************************************************)
(* compile: the declaration pass, then the body pass.                      *)
(***************************************************************************)
\* The instructions of block pos replaced by ins.
WithIns(pos, ins) == [module EXCEPT ![pos.fn].blocks[pos.bb].instrs = ins]

\* The `?` on a Result: the error leaves compile at once.
Abort(e) ==
  /\ result' = Failed(e)
  /\ pc' = "done"

\* (mutant) The first loop stops after the first function.
DeclarationPassDone_AfterFirst == fi > Len(program) \/ fi > 1

\* The first loop of compile has run over all functions.
DeclarationPassDone == fi > Len(program)

\* declare_function(program[fi]): a function with no body joins the module
\* and is registered under its name.
DeclareFunction ==
  /\ UNCHANGED <<emits, files, inner, log>>
  /\ pc = "declare"
  /\ ~DeclarationPassDone
  /\ LET func == program[fi]
         return_type == lower_type(func.return_ty)
         param_types == [i \in 1..Len(func.params) |-> lower_type(func.params[i].ty)]
         fn_value == Len(module) + 1
     IN /\ module' = Append(module, [name |-> func.name,
                                     ret |-> FnReturnType(return_type),
                                     params |-> param_types,
                                     blocks |-> <<>>])
        /\ functions' = (func.name :> fn_value) @@ functions
  /\ fi' = fi + 1
  /\ UNCHANGED <<program, locals, current_function, builder, blocks, pc, bi,
                 si, result>>

\* The end of the first loop of compile: the second loop starts.
StartBodies ==
  /\ UNCHANGED <<emits, files, inner, log>>
  /\ pc = "declare"
  /\ DeclarationPassDone
  /\ pc' = "function"
  /\ fi' = 1
  /\ UNCHANGED <<program, module, functions, locals, current_function, builder,
                 blocks, bi, si, result>>

\* (mutant) The map is not cleared.
ClearedLocals_Kept(old) == old

\* self.locals.clear()
ClearedLocals(old) == EmptyMap

\* (mutant) The slots are named from 1.
EntryAllocas_OneBased(func) ==
  [i \in 1..Len(func.locals) |->
     Alloca(lower_type(func.locals[i].ty), "local_" \o ToString(i))]

\* The allocas of the locals, in index order.
EntryAllocas(func) ==
  [i \in 1..Len(func.locals) |->
     Alloca(lower_type(func.locals[i].ty), "local_" \o ToString(i - 1))]

\* The slots recorded in locals: local i is the i-th alloca of entry.
AllocatedLocals(old, fn_value, entry, func) ==
  [i \in 0..(Len(func.locals) - 1) |-> InstVal(fn_value, entry, i + 1)] @@ old

\* (mutant) The first parameter is not stored.
ParamStores_SkipFirst(fn_value, slots) ==
  LET indices == [i \in 1..(Len(module[fn_value].params) - 1) |-> i]
      stored == SelectSeq(indices, LAMBDA i : i \in DOMAIN slots)
  IN [j \in 1..Len(stored) |-> Store(slots[stored[j]], ParamVal(fn_value, stored[j]))]

\* The stores of the formal arguments: for each parameter index with a slot.
ParamStores(fn_value, slots) ==
  LET indices == [i \in 1..Len(module[fn_value].params) |-> i - 1]
      stored == SelectSeq(indices, LAMBDA i : i \in DOMAIN slots)
  IN [j \in 1..Len(stored) |-> Store(slots[stored[j]], ParamVal(fn_value, stored[j]))]

\* One native block per MIR block, appended after entry.
NativeBlocks(func) ==
  [i \in 1..Len(func.blocks) |-> [name |-> "bb_" \o ToString(i - 1), instrs |-> <<>>]]

BlockMap(fn_value, entry, func) ==
  [i \in 0..(Len(func.blocks) - 1) |-> [fn |-> fn_value, bb |-> entry + 1 + i]]

\* The jump from entry to the first block, if there is one.
EntryBranch(bbs) == IF 0 \in DOMAIN bbs THEN <<Br(bbs[0])>> ELSE <<>>

\* (mutant) The jump is emitted before the parameters are stored.
EntryInstrs_BranchFirst(allocas, stores, branch) == allocas \o branch \o stores

\* The instructions of entry, in emission order.
EntryInstrs(allocas, stores, branch) == allocas \o stores \o branch

\* compile_function(program[fi]) up to its loop over the blocks.
BeginFunction ==
  /\ UNCHANGED <<emits, files, inner, log>>
  /\ pc = "function"
  /\ fi <= Len(program)
  /\ LET func == program[fi]
     IN IF func.name \notin DOMAIN functions
        THEN /\ Abort(Err("Function " \o func.name, " not declared"))
             /\ UNCHANGED <<module, locals, current_function, builder, blocks,
                            bi>>
        ELSE LET fn_value == functions[func.name]
                 entry == Len(module[fn_value].blocks) + 1
                 slots == AllocatedLocals(ClearedLocals(locals), fn_value,
                                          entry, func)
                 bbs == BlockMap(fn_value, entry, func)
                 entryBlock ==
                   [name |-> "entry",
                    instrs |-> EntryInstrs(EntryAllocas(func),
                                           ParamStores(fn_value, slots),
                                           EntryBranch(bbs))]
             IN /\ current_function' = fn_value
                /\ locals' = slots
                /\ builder' = [fn |-> fn_value, bb |-> entry]
                /\ blocks' = bbs
                /\ module' = [module EXCEPT ![fn_value].blocks =
                                @ \o <<entryBlock>> \o NativeBlocks(func)]
                /\ bi' = 1
                /\ pc' = "blocks"
                /\ UNCHANGED result
  /\ UNCHANGED <<program, functions, fi, si>>

\* (mutant) The builder stays where it is.
position_at_end_Stale(bb) == builder

\* builder.position_at_end(bb): the insertion block from now on.
position_at_end(bb) == bb

\* The head of the loop over the blocks: the builder moves to bb_i.
EnterBlock ==
  /\ UNCHANGED <<emits, files, inner, log>>
  /\ pc = "blocks"
  /\ bi <= Len(program[fi].blocks)
  /\ IF (bi - 1) \in DOMAIN blocks
     THEN /\ builder' = position_at_end(blocks[bi - 1])
          /\ si' = 1
          /\ pc' = "statements"
          /\ bi' = bi
     ELSE /\ bi' = bi + 1
          /\ UNCHANGED <<builder, si, pc>>
  /\ UNCHANGED <<program, module, functions, locals, current_function, blocks,
                 fi, result>>

\* (mutant) The error of an item is dropped and compile goes on.
Propagate_Never(err) == FALSE

\* What compile does after an item: `?` aborts on an error.
Propagate(err) == err # NoErr

\* compile_block: the next statement of the block.
CompileStatement ==
  /\ UNCHANGED <<emits, files, inner, log>>
  /\ pc = "statements"
  /\ si <= Len(program[fi].blocks[bi].statements)
  /\ LET r == compile_statement(CurIns, program[fi].blocks[bi].statements[si])
     IN /\ module' = WithIns(builder, r.ins)
        /\ IF Propagate(r.err)
           THEN Abort(r.err) /\ UNCHANGED si
           ELSE si' = si + 1 /\ UNCHANGED <<pc, result>>
  /\ UNCHANGED <<program, functions, locals, current_function, builder, blocks,
                 fi, bi>>

\* compile_block: the terminator, after the last statement.
CompileTerminator ==
  /\ UNCHANGED <<emits, files, inner, log>>
  /\ pc = "statements"
  /\ si > Len(program[fi].blocks[bi].statements)
  /\ LET r == compile_terminator(CurIns, program[fi].blocks[bi].terminator)
     IN /\ module' = WithIns(builder, r.ins)
        /\ IF Propagate(r.err)
           THEN Abort(r.err) /\ UNCHANGED bi
           ELSE bi' = bi + 1 /\ pc' = "blocks" /\ UNCHANGED result
  /\ UNCHANGED <<program, functions, locals, current_function, builder, blocks,
                 fi, si>>

\* The end of compile_function: current_function = None, Ok(()).
EndFunction ==
  /\ UNCHANGED <<emits, files, inner, log>>
  /\ pc = "blocks"
  /\ bi > Len(program[fi].blocks)
  /\ current_function' = 0
  /\ fi' = fi + 1
  /\ pc' = "function"
  /\ UNCHANGED <<program, module, functions, locals, builder, blocks, bi, si,
                 result>>

\* The end of compile: Ok(()).
Finish ==
  /\ UNCHANGED <<emits, files, inner, log>>
  /\ pc = "function"
  /\ fi > Len(program)
  /\ result' = Ok
  /\ pc' = "done"
  /\ UNCHANGED <<program, module, functions, locals, current_function, builder,
                 blocks, fi, bi, si>>

Next ==
  \/ DeclareFunction
  \/ StartBodies
  \/ BeginFunction
  \/ EnterBlock
  \/ CompileStatement
  \/ CompileTerminator
  \/ EndFunction
  \/ Finish

\* LLVMCodegen::new, and the program compile is called with.
InitSession(programs) ==
  /\ program \in programs
  /\ module = <<>>
  /\ functions = EmptyMap
  /\ locals = EmptyMap
  /\ current_function = 0
  /\ builder = NoPos
  /\ blocks = EmptyMap
  /\ pc = "declare"
  /\ fi = 1
  /\ bi = 1
  /\ si = 1
  /\ result = Running
  /\ emits = <<>>
  /\ files = EmptyMap
  /\ inner = EmptyMap
  /\ log = <<>>

(***************************************************************************)
(* The programs compile is checked on.                                     *)
(***************************************************************************)
\* The name of the i-th function of a program; "zz" is never declared.
FuncName == <<"f", "g", "h", "k">>
LocalTys == <<"Int", "Bool", "Unit", "Str", "F32", "Tuple">>
RetTys == {"Int", "Unit"}

TypedLocal(i) == [ty |-> LocalTys[((i - 1) % Len(LocalTys)) + 1]]

Function(name, nparams, nlocals, ret, bs) ==
  [name |-> name,
   params |-> [i \in 1..nparams |-> TypedLocal(i)],
   return_ty |-> ret,
   locals |-> [i \in 1..nlocals |-> TypedLocal(i)],
   blocks |-> bs]

SeqsUpTo(S, n) == UNION {[1..m -> S] : m \in 0..n}

StmtSet ==
  {Nop,
   Assign(0, Use(Constant(1))),
   Assign(1, Use(Copy(0))),
   Assign(0, BinaryOp("Add", Copy(0), Move(1))),
   Assign(0, BinaryOp("Lt", Copy(0), Constant(1))),
   Assign(0, BinaryOp("Other", Move(1), Copy(0))),
   Assign(0, UnaryOp("Not", Copy(0))),
   Assign(1, Call("f", <<>>)),
   Assign(0, Call("g", <<Copy(0), Move(1)>>)),
   Assign(0, Call("zz", <<Move(1)>>)),
   Assign(0, OtherRvalue)}

TermSet ==
  {Return(<<>>),
   Return(<<Copy(0)>>),
   Goto(0),
   Goto(1),
   SwitchInt(Copy(0), <<<<1, 1>>>>, 0),
   SwitchInt(Move(1), <<<<0, 0>>>>, 1),
   SwitchInt(Constant(1), <<<<0, 0>>, <<1, 1>>>>, 0),
   SwitchInt(Copy(0), <<>>, 1),
   Unreachable}

\* Every signature and number of locals, on two short bodies.
SignatureFns(name) ==
  {Function(name, k, n, "Int", bs) :
     k \in 0..MaxParams, n \in 0..MaxLocals,
     bs \in {<<>>, <<Block(<<Assign(1, Use(Copy(0)))>>, Return(<<Copy(0)>>))>>}}

\* One block of up to MaxStmts statements.
StatementFns(name) ==
  {Function(name, 0, n, r, <<Block(ss, t)>>) :
     n \in 0..MaxLocals, r \in RetTys, ss \in SeqsUpTo(StmtSet, MaxStmts),
     t \in {Return(<<>>), Return(<<Move(1)>>)}}

\* Up to MaxBlocks blocks, each with any terminator.
TerminatorFns(name) ==
  {Function(name, 0, n, "Int", bs) :
     n \in 0..MaxLocals,
     bs \in SeqsUpTo({Block(ss, t) : ss \in {<<>>, <<Assign(0, Use(Move(1)))>>},
                                     t \in TermSet}, MaxBlocks)}

\* Functions that call one another, themselves, or a function that is not there.
CallFns(name) ==
  {Function(name, 0, n, "Int", <<Block(ss, Return(<<Copy(0)>>))>>) :
     n \in 0..MaxLocals,
     ss \in SeqsUpTo({Assign(0, Call("f", <<>>)),
                      Assign(0, Call("g", <<Copy(0)>>)),
                      Assign(0, Call("zz", <<Copy(0)>>)),
                      Assign(0, Use(Copy(0)))}, 1)}

\* A function of one parameter that switches on it in its first block: every
\* list of up to MaxTargets (value, target) pairs whose targets are the first
\* block, the last block or the index MaxBlocks, which has no block; every
\* otherwise.
SwitchKeys == {-1, 0, 1}
SwitchTargets == {0, MaxBlocks - 1, MaxBlocks}
SwitchFns(name) ==
  {Function(name, 1, 1, "Int",
            [b \in 1..MaxBlocks |->
               IF b = 1 THEN Block(<<>>, SwitchInt(Copy(0), ts, o))
               ELSE Block(<<>>, Return(<<Copy(0)>>))]) :
     ts \in SeqsUpTo(SwitchKeys \X SwitchTargets, MaxTargets), o \in 0..MaxBlocks}

\* A function of one local and two blocks that assigns to a local with or
\* without a slot, switches over targets of which some have no block, and
\* jumps to a block that may not be there.
SilentFns(name) ==
  {Function(name, 0, 1, "Int",
            <<Block(<<Assign(p, Use(Copy(l)))>>, SwitchInt(Copy(0), ts, o)),
              Block(<<>>, Goto(t))>>) :
     p \in {0, 1}, l \in {0, 1}, o \in {1, 2}, t \in {0, 2},
     ts \in {<<<<0, 1>>, <<1, 2>>>>, <<<<0, 2>>, <<1, 1>>, <<-1, 2>>>>,
             <<<<1, 2>>>>, <<>>}}

RECURSIVE SignaturePrograms(_)
\* The programs of n functions, the i-th named FuncName[i].
SignaturePrograms(n) ==
  IF n = 0 THEN {<<>>}
  ELSE {Append(p, f) : p \in SignaturePrograms(n - 1), f \in SignatureFns(FuncName[n])}

RECURSIVE CallPrograms(_)
CallPrograms(n) ==
  IF n = 0 THEN {<<>>}
  ELSE {Append(p, f) : p \in CallPrograms(n - 1), f \in CallFns(FuncName[n])}

\* compile is given one of: up to MaxFuncs functions of every signature; up
\* to MaxFuncs functions calling one another; one function of up to MaxStmts
\* statements; one function of up to MaxBlocks blocks; one function that
\* switches on its parameter; one function that names locals and blocks it
\* does not have.
Init ==
  \/ \E n \in 0..MaxFuncs : InitSession(SignaturePrograms(n))
  \/ \E n \in 1..MaxFuncs : InitSession(CallPrograms(n))
  \/ InitSession({<<f>> : f \in StatementFns(FuncName[1])})
  \/ InitSession({<<f>> : f \in TerminatorFns(FuncName[1])})
  \/ InitSession({<<f>> : f \in SwitchFns(FuncName[1])})
  \/ InitSession({<<f>> : f \in SilentFns(FuncName[1])})

Spec == Init /\ [][Next]_vars

(***************************************************************************)
(* The emitters: get_llvm_ir, write_llvm_ir, write_object_file.  Each      *)
(* borrows the session (&self) once compile has returned.                  *)
(***************************************************************************)
RECURSIVE Join(_, _)
\* The strings of seq, each followed by sep.
Join(seq, sep) == IF seq = <<>> THEN "" ELSE seq[1] \o sep \o Join(Tail(seq), sep)

\* A value as the IR names it: a constant in signed decimal, an argument or
\* an instruction's result by its place.
ValueText(v) ==
  CASE v.kind = "const" ->
         v.ty \o " " \o (IF v.bits[1] = 0 THEN ToString(v.bits[4])
                         ELSE "-" \o ToString(Limb - v.bits[4]))
    [] v.kind = "param" -> "%" \o ToString(v.ix)
    [] v.kind = "inst" -> "%v" \o ToString(v.bb) \o "_" \o ToString(v.ix)
    [] OTHER -> "undef"

LabelText(m, bb) == "%" \o m[bb.fn].blocks[bb.bb].name

InstrText(m, x) ==
  CASE x.op = "alloca" -> "%" \o x.name \o " = alloca " \o x.ty
    [] x.op = "store" -> "store " \o ValueText(x.val) \o ", ptr " \o ValueText(x.ptr)
    [] x.op = "load" -> "load " \o x.ty \o ", ptr " \o ValueText(x.ptr)
    [] x.op = "icmp" ->
         "icmp " \o x.pred \o " " \o ValueText(x.lhs) \o ", " \o ValueText(x.rhs)
    [] x.op = "call" ->
         "call " \o m[x.callee].ret \o " @" \o m[x.callee].name \o "("
           \o Join([i \in 1..Len(x.args) |-> ValueText(x.args[i])], ",") \o ")"
    [] x.op = "ret" ->
         IF x.val = <<>> THEN "ret void" ELSE "ret " \o ValueText(x.val[1])
    [] x.op = "br" -> "br label " \o LabelText(m, x.dest)
    [] x.op = "condbr" ->
         "br i1 " \o ValueText(x.cond) \o ", label " \o LabelText(m, x.then)
           \o ", label " \o LabelText(m, x.else)
    [] x.op = "switch" ->
         "switch " \o ValueText(x.val) \o ", label " \o LabelText(m, x.default) \o " ["
           \o Join([i \in 1..Len(x.cases) |->
                      ValueText(x.cases[i][1]) \o ", label "
                        \o LabelText(m, x.cases[i][2])], " ")
           \o "]"
    [] x.op = "unreachable" -> "unreachable"
    [] x.op \in {"neg", "not"} -> x.op \o " " \o ValueText(x.val)
    [] OTHER -> x.op \o " " \o ValueText(x.lhs) \o ", " \o ValueText(x.rhs)

BlockText(m, b) ==
  b.name \o ":\n" \o Join([i \in 1..Len(b.instrs) |-> InstrText(m, b.instrs[i])], "\n")

FunctionText(m, f) ==
  (IF f.blocks = <<>> THEN "declare " ELSE "define ")
    \o f.ret \o " @" \o f.name \o "("
    \o Join([i \in 1..Len(f.params) |-> f.params[i]], ",") \o ")\n"
    \o Join([i \in 1..Len(f.blocks) |-> BlockText(m, f.blocks[i])], "")

\* Module::print_to_string: the textual IR of module m.
print_to_string(m) == Join([h \in 1..Len(m) |-> FunctionText(m, m[h])], "\n")

\* What the target machine writes for m: an object defining the functions
\* that have a body and referring to those that have none.
ObjectCode(m) ==
  [defined |-> {m[h].name : h \in {g \in 1..Len(m) : m[g].blocks # <<>>}},
   undefined |-> {m[h].name : h \in {g \in 1..Len(m) : m[g].blocks = <<>>}}]

Paths == {"out"}
ObjectErrors ==
  {"Failed to initialize LLVM: ", "Failed to get target: ",
   "Failed to create target machine", "Failed to write object file: "}

\* compile has returned and the caller makes one more emitter call.
CanEmit == pc = "done" /\ Len(emits) < MaxEmits

Session == <<program, module, functions, locals, current_function, builder,
             blocks, pc, fi, bi, si, result>>

\* pub fn get_llvm_ir(&self) -> String
GetLlvmIr ==
  /\ CanEmit
  /\ emits' = Append(emits, [op |-> "get_llvm_ir", out |-> print_to_string(module)])
  /\ UNCHANGED <<Session, files, inner, log>>

\* pub fn write_llvm_ir(&self, path): print_to_file, which may fail.
WriteLlvmIr ==
  /\ CanEmit
  /\ \E path \in Paths :
       \/ /\ files' = (path :> print_to_string(module)) @@ files
          /\ emits' = Append(emits, [op |-> "write_llvm_ir", out |-> NoErr])
       \/ /\ files' = files
          /\ emits' = Append(emits, [op |-> "write_llvm_ir",
                                     out |-> Err("Failed to write IR: ", "")])
  /\ UNCHANGED <<Session, inner, log>>

\* (mutant) Writing the object takes the bodies out of the module.
WriteObjectFile_Consuming ==
  /\ CanEmit
  /\ \E path \in Paths :
       /\ files' = (path :> ObjectCode(module)) @@ files
       /\ emits' = Append(emits, [op |-> "write_object_file", out |-> NoErr])
  /\ module' = [h \in 1..Len(module) |-> [module[h] EXCEPT !.blocks = <<>>]]
  /\ UNCHANGED <<program, functions, locals, current_function, builder, blocks,
                 pc, fi, bi, si, result, inner, log>>

\* pub fn write_object_file(&self, path): target, machine, write_to_file;
\* each step may fail.
WriteObjectFile ==
  /\ CanEmit
  /\ \E path \in Paths :
       \/ /\ files' = (path :> ObjectCode(module)) @@ files
          /\ emits' = Append(emits, [op |-> "write_object_file", out |-> NoErr])
       \/ \E e \in ObjectErrors :
            /\ files' = files
            /\ emits' = Append(emits, [op |-> "write_object_file",
                                       out |-> Err(e, "")])
  /\ UNCHANGED <<Session, inner, log>>

NextEmit ==
  \/ Next
  \/ GetLlvmIr
  \/ WriteLlvmIr
  \/ WriteObjectFile

\* compile is given no function, or one of the calling functions.
InitEmit == InitSession({<<>>} \cup CallPrograms(1))

SpecEmit == InitEmit /\ [][NextEmit]_vars

(***************************************************************************)
(* The string map of the runtime (runtime/src/map.rs).  A C string is its  *)
(* bytes before the terminating NUL, or the null pointer.                  *)
(***************************************************************************)
NullPtr == [null |-> TRUE, bytes |-> <<>>]
CStr(bs) == [null |-> FALSE, bytes |-> bs]

RECURSIVE from_utf8_lossy(_)
\* CStr::to_string_lossy: the code points of bs, with U+FFFD for every byte
\* that starts no well-formed sequence (sequences of up to three bytes).
from_utf8_lossy(bs) ==
  IF bs = <<>> THEN <<>>
  ELSE LET b == bs[1]
           n == Len(bs)
           cont(i) == i <= n /\ bs[i] \in 128..191
       IN IF b < 128 THEN <<b>> \o from_utf8_lossy(Tail(bs))
          ELSE IF b \in 194..223 /\ cont(2)
          THEN <<(b - 192) * 64 + (bs[2] - 128)>> \o from_utf8_lossy(SubSeq(bs, 3, n))
          ELSE IF /\ b \in 224..239
                  /\ cont(2)
                  /\ cont(3)
                  /\ (b = 224 => bs[2] >= 160)
                  /\ (b = 237 => bs[2] <= 159)
          THEN <<(b - 224) * 4096 + (bs[2] - 128) * 64 + (bs[3] - 128)>>
                 \o from_utf8_lossy(SubSeq(bs, 4, n))
          ELSE <<65533>> \o from_utf8_lossy(Tail(bs))

RECURSIVE as_bytes(_)
\* The UTF-8 bytes of a String (code points below 2^16).
as_bytes(str) ==
  IF str = <<>> THEN <<>>
  ELSE LET c == str[1]
       IN (IF c < 128 THEN <<c>>
           ELSE IF c < 2048 THEN <<192 + (c \div 64), 128 + (c % 64)>>
           ELSE <<224 + (c \div 4096), 128 + ((c \div 64) % 64), 128 + (c % 64)>>)
            \o as_bytes(Tail(str))

\* CString::new(val.as_str()).unwrap_or_default().into_raw()
NewCString(str) ==
  LET bs == as_bytes(str)
  IN IF \E i \in 1..Len(bs) : bs[i] = 0 THEN CStr(<<>>) ELSE CStr(bs)

\* Each operation gives the map after it and what it returns.
forma_map_len(h, m) ==
  IF m.null THEN [inner |-> h, ret |-> 0]
  ELSE [inner |-> h, ret |-> Cardinality(DOMAIN h)]

forma_map_get(h, m, key) ==
  IF m.null \/ key.null THEN [inner |-> h, ret |-> NullPtr]
  ELSE LET key_str == from_utf8_lossy(key.bytes)
       IN IF key_str \in DOMAIN h
          THEN [inner |-> h, ret |-> NewCString(h[key_str])]
          ELSE [inner |-> h, ret |-> NullPtr]

\* (mutant) A key that is present keeps its value.
forma_map_set_KeepFirst(h, m, key, value) ==
  IF m.null \/ key.null \/ value.null THEN [inner |-> h, ret |-> "()"]
  ELSE LET key_str == from_utf8_lossy(key.bytes)
           val_str == from_utf8_lossy(value.bytes)
       IN [inner |-> h @@ (key_str :> val_str), ret |-> "()"]

forma_map_set(h, m, key, value) ==
  IF m.null \/ key.null \/ value.null THEN [inner |-> h, ret |-> "()"]
  ELSE LET key_str == from_utf8_lossy(key.bytes)
           val_str == from_utf8_lossy(value.bytes)
       IN [inner |-> (key_str :> val_str) @@ h, ret |-> "()"]

forma_map_contains(h, m, key) ==
  IF m.null \/ key.null THEN [inner |-> h, ret |-> FALSE]
  ELSE [inner |-> h, ret |-> from_utf8_lossy(key.bytes) \in DOMAIN h]

forma_map_remove(h, m, key) ==
  IF m.null \/ key.null THEN [inner |-> h, ret |-> FALSE]
  ELSE LET key_str == from_utf8_lossy(key.bytes)
       IN [inner |-> [k \in DOMAIN h \ {key_str} |-> h[k]],
           ret |-> key_str \in DOMAIN h]

\* The arguments the caller passes: the map of forma_map_new or null; a key
\* that is null, ASCII or not UTF-8; a value that is null, a two-byte
\* character or not UTF-8.  With a null map the strings are ASCII.
MapPtrs == {[null |-> FALSE], [null |-> TRUE]}
KeyArgs == {NullPtr, CStr(<<97>>), CStr(<<254>>), CStr(<<255>>)}
ValueArgs == {NullPtr, CStr(<<195, 169>>), CStr(<<255>>)}
MapArgs ==
  {a \in MapPtrs \X KeyArgs \X (ValueArgs \cup {CStr(<<97>>)}) :
     IF a[1].null THEN a[2] = CStr(<<97>>) /\ a[3] = CStr(<<97>>)
     ELSE a[3] \in ValueArgs}
MapKeyArgs == {<<a[1], a[2]>> : a \in MapArgs}

\* The call op(m, key, value) is made and returns as out says.
Called(op, m, key, value, out) ==
  /\ Len(log) < MaxOps
  /\ inner' = out.inner
  /\ log' = Append(log, [op |-> op, m |-> m, key |-> key, value |-> value,
                         ret |-> out.ret])
  /\ UNCHANGED <<program, module, functions, locals, current_function, builder,
                 blocks, pc, fi, bi, si, result, emits, files>>

MapLen ==
  \E m \in MapPtrs : Called("len", m, NullPtr, NullPtr, forma_map_len(inner, m))

MapGet ==
  \E a \in MapKeyArgs :
    Called("get", a[1], a[2], NullPtr, forma_map_get(inner, a[1], a[2]))

MapSet ==
  \E a \in MapArgs :
    Called("set", a[1], a[2], a[3], forma_map_set(inner, a[1], a[2], a[3]))

MapContains ==
  \E a \in MapKeyArgs :
    Called("contains", a[1], a[2], NullPtr, forma_map_contains(inner, a[1], a[2]))

MapRemove ==
  \E a \in MapKeyArgs :
    Called("remove", a[1], a[2], NullPtr, forma_map_remove(inner, a[1], a[2]))

NextMap ==
  \/ MapLen
  \/ MapGet
  \/ MapSet
  \/ MapContains
  \/ MapRemove

\* forma_map_new: an empty map; the code generator plays no part.
InitMap == InitSession({<<>>})

SpecMap == InitMap /\ [][NextMap]_vars

(***************************************************************************)
(* What the properties speak of.                                           *)
(***************************************************************************)
FnIndices == 1..Len(program)
ProgramNames == {program[i].name : i \in FnIndices}
ModuleNames == {module[h].name : h \in 1..Len(module)}
Succeeded == pc = "done" /\ result.status = "ok"

AllStatements(func) ==
  UNION {{func.blocks[b].statements[j] : j \in 1..Len(func.blocks[b].statements)} :
           b \in 1..Len(func.blocks)}

\* The names some Call rvalue of the function's body names.
CalledNames(func) ==
  {s.rvalue.func :
     s \in {t \in AllStatements(func) : t.kind = "Assign" /\ t.rvalue.kind = "Call"}}

AllCallsResolved == \A i \in FnIndices : CalledNames(program[i]) \subseteq ProgramNames

\* C1: no body is emitted before every function of the program is declared
\* and registered under its name; so when every Call names a function of the
\* program, compile never fails with "Unknown function" (forward, self and
\* mutually recursive calls alike), and once compile has returned every
\* called name is the name of a function of the module.
C1_DeclarationPrecedesBodies ==
  /\ (\E h \in 1..Len(module) : module[h].blocks # <<>>)
       => \A i \in FnIndices :
            /\ program[i].name \in DOMAIN functions
            /\ module[functions[program[i].name]].name = program[i].name
  /\ AllCallsResolved => result.err.prefix # "Unknown function: "
  /\ (pc = "done" /\ AllCallsResolved)
       => \A i \in FnIndices : CalledNames(program[i]) \subseteq ModuleNames

\* A mutually recursive pair, the first calling forward, compiled.
C1_Witness ==
  /\ Succeeded
  /\ Len(program) = 2
  /\ program[2].name \in CalledNames(program[1])
  /\ program[1].name \in CalledNames(program[2])

\* compile is about to compile a statement / has compiled the block's last.
AtStatement == pc = "statements" /\ si <= Len(program[fi].blocks[bi].statements)
AtTerminator == pc = "statements" /\ si > Len(program[fi].blocks[bi].statements)
\* The statement compile is at (the one that failed, once it has failed).
CurStatement == program[fi].blocks[bi].statements[si]

AtUnknownCall ==
  /\ AtStatement
  /\ CurStatement.kind = "Assign"
  /\ CurStatement.rvalue.kind = "Call"
  /\ CurStatement.rvalue.func \notin ProgramNames

\* C2: when compile, nothing having failed so far, reaches a Call rvalue whose
\* name is no function of the program, it returns the error "Unknown function:
\* <name>", and no instruction is emitted for the call's arguments: the module
\* is as it was before the statement.
C2_UnknownFunction ==
  [][AtUnknownCall =>
       /\ pc' = "done"
       /\ result' = Failed(Err("Unknown function: ", CurStatement.rvalue.func))
       /\ module' = module]_vars

\* compile failed on a call of an unknown function whose argument is itself
\* an unknown local.
C2_Witness ==
  /\ pc = "done"
  /\ result.status = "err"
  /\ result.err.prefix = "Unknown function: "
  /\ \E j \in 1..Len(CurStatement.rvalue.args) :
       /\ CurStatement.rvalue.args[j].kind \in {"Copy", "Move"}
       /\ CurStatement.rvalue.args[j].local \notin DOMAIN locals

(***************************************************************************)
(* Well-formed input (the invariants the code generator does not check).   *)
(***************************************************************************)
Range(f) == {f[x] : x \in DOMAIN f}

RvalueOperands(rv) ==
  CASE rv.kind = "Use" -> {rv.operand}
    [] rv.kind = "BinaryOp" -> {rv.left, rv.right}
    [] rv.kind = "UnaryOp" -> {rv.operand}
    [] rv.kind = "Call" -> Range(rv.args)
    [] OTHER -> {}

TerminatorOperands(t) ==
  CASE t.kind = "Return" -> Range(t.operand)
    [] t.kind = "SwitchInt" -> {t.discriminant}
    [] OTHER -> {}

TerminatorTargets(t) ==
  CASE t.kind = "Goto" -> {t.target}
    [] t.kind = "SwitchInt" -> {t.otherwise} \cup {p[2] : p \in Range(t.targets)}
    [] OTHER -> {}

\* The local indices the function's body names, in operands and places.
NamedLocals(func) ==
  LET operands ==
        UNION {RvalueOperands(s.rvalue) :
                 s \in {t \in AllStatements(func) : t.kind = "Assign"}}
          \cup UNION {TerminatorOperands(func.blocks[b].terminator) :
                        b \in 1..Len(func.blocks)}
  IN {o.local : o \in {x \in operands : x.kind \in {"Copy", "Move"}}}
       \cup {s.place : s \in {t \in AllStatements(func) : t.kind = "Assign"}}

NamedBlocks(func) ==
  UNION {TerminatorTargets(func.blocks[b].terminator) : b \in 1..Len(func.blocks)}

WellFormed ==
  /\ AllCallsResolved
  /\ \A i \in FnIndices :
       /\ NamedLocals(program[i]) \subseteq 0..(Len(program[i].locals) - 1)
       /\ NamedBlocks(program[i]) \subseteq 0..(Len(program[i].blocks) - 1)

\* The function of the module that the i-th function of the program was
\* declared as, and its native block named bb_b.
Handle(i) == functions[program[i].name]
NativeBlock(i, b) ==
  LET bbs == module[Handle(i)].blocks
  IN bbs[CHOOSE p \in 1..Len(bbs) : bbs[p].name = "bb_" \o ToString(b)]

NumTerminators(ins) == Cardinality({j \in 1..Len(ins) : ins[j].op \in TerminatorOps})

\* C3: after a successful compile of well-formed input, the native block bb_b
\* of every MIR block holds exactly one terminator instruction, and it is the
\* block's last instruction.
C3_WellTerminated ==
  (Succeeded /\ WellFormed) =>
    \A i \in FnIndices : \A b \in 0..(Len(program[i].blocks) - 1) :
      LET ins == NativeBlock(i, b).instrs
      IN /\ ins # <<>>
         /\ ins[Len(ins)].op \in TerminatorOps
         /\ NumTerminators(ins) = 1

\* A compiled well-formed function of a conditional branch and a jump.
C3_Witness ==
  /\ Succeeded
  /\ WellFormed
  /\ \E i \in FnIndices : \E b, c \in 1..Len(program[i].blocks) :
       /\ program[i].blocks[b].terminator.kind = "SwitchInt"
       /\ program[i].blocks[c].terminator.kind = "Goto"

(***************************************************************************)
(* The entry block.                                                        *)
(***************************************************************************)
\* compile_function has laid out the body of the i-th function.
Started(i) ==
  /\ program[i].name \in DOMAIN functions
  /\ module[Handle(i)].blocks # <<>>
StartedFns == {i \in FnIndices : Started(i)}

Entry(i) == module[Handle(i)].blocks[1]
OfOp(ins, op) == SelectSeq(ins, LAMBDA x : x.op = op)
Min(a, b) == IF a <= b THEN a ELSE b

\* val is the result of the alloca named name in the entry block of function i.
IsSlot(i, val, name) ==
  /\ val.kind = "inst"
  /\ val.fn = Handle(i)
  /\ val.bb = 1
  /\ val.ix \in 1..Len(Entry(i).instrs)
  /\ Entry(i).instrs[val.ix].op = "alloca"
  /\ Entry(i).instrs[val.ix].name = name

\* C4: the entry block of every compiled function holds exactly one alloca per
\* local, named local_0 .. local_{n-1} in that order, and no other block of
\* the function holds an alloca.
C4_AllocasInEntry ==
  \A i \in StartedFns :
    LET bbs == module[Handle(i)].blocks
        allocas == OfOp(Entry(i).instrs, "alloca")
    IN /\ Entry(i).name = "entry"
       /\ Len(allocas) = Len(program[i].locals)
       /\ \A j \in 1..Len(allocas) : allocas[j].name = "local_" \o ToString(j - 1)
       /\ \A p \in 2..Len(bbs) : OfOp(bbs[p].instrs, "alloca") = <<>>

\* A compiled function of MaxLocals locals whose body emitted instructions.
C4_Witness ==
  /\ Succeeded
  /\ \E i \in FnIndices :
       /\ Len(program[i].locals) = MaxLocals
       /\ \E p \in 2..Len(module[Handle(i)].blocks) :
            Len(module[Handle(i)].blocks[p].instrs) > 1

\* The stores of entry are those of the first m formal arguments, in order,
\* the j-th into the slot local_j.
StoresFirstParams(i, m) ==
  LET stores == OfOp(Entry(i).instrs, "store")
  IN /\ Len(stores) = m
     /\ \A j \in 1..m :
          /\ stores[j].val = ParamVal(Handle(i), j - 1)
          /\ IsSlot(i, stores[j].ptr, "local_" \o ToString(j - 1))

\* C5 as claimed: exactly k stores for a function of k parameters.
C5_Original == \A i \in StartedFns : StoresFirstParams(i, Len(program[i].params))

\* C5 (amended): the entry block of every compiled function of k parameters
\* and n locals holds exactly min(k, n) stores, the j-th storing the j-th
\* formal argument into local_j, in parameter order; that is k stores when
\* k <= n, and a parameter with no local is not stored.
C5_ParamStores ==
  \A i \in StartedFns :
    StoresFirstParams(i, Min(Len(program[i].params), Len(program[i].locals)))

\* A compiled function whose MaxParams parameters all have a local.
C5_Witness ==
  /\ pc = "done"
  /\ \E i \in StartedFns :
       /\ Len(program[i].params) = MaxParams
       /\ Len(program[i].locals) >= MaxParams

\* C6: the entry block of every compiled function with at least one MIR block
\* ends with a branch to bb_0, which is its only terminator and comes after
\* nothing but allocas and stores; this stays so whatever is compiled later.
C6_EntryBranch ==
  \A i \in StartedFns :
    program[i].blocks # <<>> =>
      LET ins == Entry(i).instrs
          last == ins[Len(ins)]
      IN /\ ins # <<>>
         /\ last.op = "br"
         /\ last.dest.fn = Handle(i)
         /\ module[Handle(i)].blocks[last.dest.bb].name = "bb_0"
         /\ NumTerminators(ins) = 1
         /\ \A j \in 1..(Len(ins) - 1) : ins[j].op \in {"alloca", "store"}

\* A compiled function with a stored parameter whose blocks were filled after
\* entry was.
C6_Witness ==
  /\ Succeeded
  /\ \E i \in FnIndices :
       /\ OfOp(Entry(i).instrs, "store") # <<>>
       /\ Len(module[Handle(i)].blocks) > 1
       /\ module[Handle(i)].blocks[2].instrs # <<>>

(***************************************************************************)
(* The error of each item of the program, read off the program alone, and  *)
(* the first failing item in program order.                                *)
(***************************************************************************)
\* The first error of a sequence of errors, NoErr when there is none.
FirstOf(errs) ==
  LET failing == {j \in 1..Len(errs) : errs[j] # NoErr}
  IN IF failing = {} THEN NoErr
     ELSE errs[CHOOSE j \in failing : \A k \in failing : j <= k]

OperandError(func, o) ==
  IF o.kind \in {"Copy", "Move"} /\ o.local >= Len(func.locals)
  THEN Err("Unknown local: ", ToString(o.local))
  ELSE NoErr

SupportedBinOps ==
  {"Add", "Sub", "Mul", "Div", "Mod", "Eq", "Ne", "Lt", "Le", "Gt", "Ge", "And", "Or"}

RvalueError(func, rv) ==
  CASE rv.kind = "Use" -> OperandError(func, rv.operand)
    [] rv.kind = "BinaryOp" ->
         FirstOf(<<OperandError(func, rv.left), OperandError(func, rv.right),
                   IF rv.op \in SupportedBinOps THEN NoErr
                   ELSE Err("Unsupported binary operator: ", rv.op)>>)
    [] rv.kind = "UnaryOp" -> OperandError(func, rv.operand)
    [] rv.kind = "Call" ->
         IF rv.func \notin ProgramNames
         THEN Err("Unknown function: ", rv.func)
         ELSE FirstOf([j \in 1..Len(rv.args) |-> OperandError(func, rv.args[j])])
    [] OTHER -> Err("Unsupported rvalue: ", rv.kind)

TerminatorError(func, t) ==
  CASE t.kind = "Return" ->
         IF t.operand = <<>> THEN NoErr ELSE OperandError(func, t.operand[1])
    [] t.kind = "SwitchInt" ->
         FirstOf(<<OperandError(func, t.discriminant),
                   IF t.otherwise >= Len(func.blocks)
                   THEN Err("Missing otherwise block", "") ELSE NoErr,
                   IF Len(t.targets) = 1 /\ t.targets[1][2] >= Len(func.blocks)
                   THEN Err("Missing then block", "") ELSE NoErr>>)
    [] OTHER -> NoErr

\* The items of the program: <<i, b, j>> is the j-th statement of the b-th
\* block of the i-th function, or the block's terminator when j is one more
\* than the number of its statements.
Items ==
  UNION {UNION {{<<i, b, j>> : j \in 1..(Len(program[i].blocks[b].statements) + 1)} :
                  b \in 1..Len(program[i].blocks)} :
           i \in FnIndices}

ItemError(it) ==
  LET func == program[it[1]]
      block == func.blocks[it[2]]
  IN IF it[3] <= Len(block.statements)
     THEN IF block.statements[it[3]].kind = "Assign"
          THEN RvalueError(func, block.statements[it[3]].rvalue)
          ELSE NoErr
     ELSE TerminatorError(func, block.terminator)

\* Program order.
Before(p, q) ==
  \/ p[1] < q[1]
  \/ p[1] = q[1] /\ p[2] < q[2]
  \/ p[1] = q[1] /\ p[2] = q[2] /\ p[3] < q[3]

FailingItems == {it \in Items : ItemError(it) # NoErr}
FirstFailing == CHOOSE p \in FailingItems : \A q \in FailingItems \ {p} : Before(p, q)

\* The Assign statements before the j-th of a block whose place has a slot.
StoringStatements(func, block, j) ==
  {k \in 1..(j - 1) :
     /\ block.statements[k].kind = "Assign"
     /\ block.statements[k].place < Len(func.locals)}

\* C7: compile returns the error of the first failing item in program order
\* (Ok when no item fails), stopped at that item; nothing of what follows the
\* item is in the module: no terminator and no store of a later statement in
\* its block, no instruction in a later block of its function, no body of a
\* later function; and once compile has returned nothing changes.
C7_AbortAtFirstError ==
  /\ [](pc = "done" =>
          result = IF FailingItems = {} THEN Ok
                   ELSE Failed(ItemError(FirstFailing)))
  /\ []((pc = "done" /\ result.status = "err") =>
          /\ <<fi, bi, si>> = FirstFailing
          /\ LET func == program[fi]
                 ins == NativeBlock(fi, bi - 1).instrs
             IN /\ NumTerminators(ins) = 0
                /\ Len(OfOp(ins, "store")) =
                     Cardinality(StoringStatements(func, func.blocks[bi], si))
                /\ \A b \in (bi + 1)..Len(func.blocks) :
                     NativeBlock(fi, b - 1).instrs = <<>>
          /\ \A i \in (fi + 1)..Len(program) : module[Handle(i)].blocks = <<>>)
  /\ [][pc = "done" => UNCHANGED vars]_vars

\* compile failed on an item that is followed by an item failing differently.
C7_Witness ==
  /\ pc = "done"
  /\ result.status = "err"
  /\ \E it \in FailingItems :
       /\ Before(<<fi, bi, si>>, it)
       /\ ItemError(it) # result.err

(***************************************************************************)
(* SwitchInt.  Where control goes is read off the emitted instructions by   *)
(* the meaning of icmp, br and switch, for each 64-bit value x that the     *)
(* loaded discriminant may hold.                                             *)
(***************************************************************************)
DiscValues == {-1, 0, 1, 2, 7}

\* The native block bb_b of the i-th function, as branch instructions name it.
BlockRef(i, b) ==
  LET bbs == module[Handle(i)].blocks
  IN [fn |-> Handle(i),
      bb |-> CHOOSE p \in 1..Len(bbs) : bbs[p].name = "bb_" \o ToString(b)]

\* The 64-bit pattern of value v when every load yields x.
Bits(v, x) == IF v.kind = "const" THEN v.bits ELSE AsU64(x)

\* The blocks control may enter from the terminator that ends ins.
Successors(ins, x) ==
  LET t == ins[Len(ins)]
  IN CASE t.op = "condbr" ->
            LET c == ins[t.cond.ix]
                holds == IF c.pred = "ne" THEN Bits(c.lhs, x) # Bits(c.rhs, x)
                         ELSE Bits(c.lhs, x) = Bits(c.rhs, x)
            IN {IF holds THEN t.then ELSE t.else}
       [] t.op = "switch" ->
            LET hit == {j \in 1..Len(t.cases) : t.cases[j][1].bits = Bits(t.val, x)}
            IN IF hit = {} THEN {t.default} ELSE {t.cases[j][2] : j \in hit}
       [] t.op = "br" -> {t.dest}
       [] OTHER -> {}

\* The instructions of ins up to the terminator compute the discriminant d
\* of the i-th function as the value val: a load of d's slot, or a constant.
ComputesDiscriminant(i, b, ins, d, val) ==
  IF d.kind = "Constant"
  THEN val = ConstI64(d.value)
  ELSE \E j \in 1..Len(ins) :
         /\ val = InstVal(Handle(i), BlockRef(i, b).bb, j)
         /\ ins[j].op = "load"
         /\ ins[j].ty = "i64"
         /\ IsSlot(i, ins[j].ptr, "local_" \o ToString(d.local))

\* The MIR blocks (function, 0-based index) that end in a SwitchInt.
SwitchBlocks ==
  {ib \in UNION {{<<i, b>> : b \in 0..(Len(program[i].blocks) - 1)} : i \in FnIndices} :
     program[ib[1]].blocks[ib[2] + 1].terminator.kind = "SwitchInt"}

SwitchOf(ib) == program[ib[1]].blocks[ib[2] + 1].terminator

\* C8: a SwitchInt of exactly one target, compiled with its block indices
\* bound, ends its block with a compare of the discriminant against the
\* 64-bit constant 0 under "ne" and a conditional branch on the result to
\* bb_target (true) and bb_otherwise (false), whatever the key; control
\* enters the target block when the discriminant is not 0 (1, say) and the
\* otherwise block when it is 0.
C8_SingleTargetSwitch ==
  Succeeded =>
    \A ib \in SwitchBlocks :
      LET t == SwitchOf(ib)
          ins == NativeBlock(ib[1], ib[2]).instrs
          n == Len(ins)
          then_bb == BlockRef(ib[1], t.targets[1][2])
          else_bb == BlockRef(ib[1], t.otherwise)
      IN Len(t.targets) = 1 =>
           /\ n >= 2
           /\ ins[n - 1].op = "icmp"
           /\ ins[n - 1].pred = "ne"
           /\ ins[n - 1].rhs = ConstI64(0)
           /\ ComputesDiscriminant(ib[1], ib[2], SubSeq(ins, 1, n - 2),
                                   t.discriminant, ins[n - 1].lhs)
           /\ ins[n] = CondBr(InstVal(Handle(ib[1]), BlockRef(ib[1], ib[2]).bb, n - 1),
                              then_bb, else_bb)
           /\ \A x \in DiscValues :
                LET v == IF t.discriminant.kind = "Constant"
                         THEN t.discriminant.value ELSE x
                IN Successors(ins, x) = {IF v # 0 THEN then_bb ELSE else_bb}

\* A compiled single-target switch on a loaded discriminant whose key is not
\* 1 and whose two blocks differ.
C8_Witness ==
  /\ Succeeded
  /\ \E ib \in SwitchBlocks :
       LET t == SwitchOf(ib)
       IN /\ Len(t.targets) = 1
          /\ t.discriminant.kind = "Copy"
          /\ t.targets[1][1] # 1
          /\ t.targets[1][2] # t.otherwise
          /\ Successors(NativeBlock(ib[1], ib[2]).instrs, 1)
               = {BlockRef(ib[1], t.targets[1][2])}
          /\ Successors(NativeBlock(ib[1], ib[2]).instrs, 0)
               = {BlockRef(ib[1], t.otherwise)}

\* C9: a SwitchInt whose number of targets is not 1, compiled with its
\* block indices bound, ends its block with a switch on the discriminant
\* whose default is bb_otherwise and whose cases are the (value, target)
\* pairs in input order, each keyed by its value as a 64-bit constant;
\* control enters the target of a pair whose value equals the discriminant,
\* and the otherwise block when no value does.
C9_MultiWaySwitch ==
  Succeeded =>
    \A ib \in SwitchBlocks :
      LET t == SwitchOf(ib)
          ins == NativeBlock(ib[1], ib[2]).instrs
          n == Len(ins)
          else_bb == BlockRef(ib[1], t.otherwise)
      IN (/\ Len(t.targets) # 1
          /\ \A j \in 1..Len(t.targets) :
               t.targets[j][2] < Len(program[ib[1]].blocks)) =>
           /\ n >= 1
           /\ ins[n].op = "switch"
           /\ ComputesDiscriminant(ib[1], ib[2], SubSeq(ins, 1, n - 1),
                                   t.discriminant, ins[n].val)
           /\ ins[n].default = else_bb
           /\ ins[n].cases
                = [j \in 1..Len(t.targets) |->
                     <<ConstI64(t.targets[j][1]), BlockRef(ib[1], t.targets[j][2])>>]
           /\ \A x \in DiscValues :
                LET v == IF t.discriminant.kind = "Constant"
                         THEN t.discriminant.value ELSE x
                    hit == {j \in 1..Len(t.targets) : t.targets[j][1] = v}
                IN Successors(ins, x)
                     = IF hit = {} THEN {else_bb}
                       ELSE {BlockRef(ib[1], t.targets[j][2]) : j \in hit}

\* A compiled switch of three pairs of distinct values, one of them
\* negative, on a loaded discriminant: 1 goes to its pair's block, 7 to
\* otherwise.
C9_Witness ==
  /\ Succeeded
  /\ \E ib \in SwitchBlocks :
       LET t == SwitchOf(ib)
           ins == NativeBlock(ib[1], ib[2]).instrs
       IN /\ Len(t.targets) = 3
          /\ \A j \in 1..3 : t.targets[j][2] < Len(program[ib[1]].blocks)
          /\ t.discriminant.kind = "Copy"
          /\ {t.targets[j][1] : j \in 1..3} = {-1, 0, 1}
          /\ \E j \in 1..3 :
               /\ t.targets[j][1] = 1
               /\ t.targets[j][2] # t.otherwise
               /\ Successors(ins, 1) = {BlockRef(ib[1], t.targets[j][2])}
          /\ Successors(ins, 7) = {BlockRef(ib[1], t.otherwise)}

(***************************************************************************)
(* The locals map.                                                         *)
(***************************************************************************)
\* compile_function is past its layout of program[fi] and in its blocks.
InBody == pc \in {"blocks", "statements"}

\* The operand that the item compile is at compiles first, in a one-element
\* set; empty when the item starts otherwise.
FirstOperand ==
  IF AtStatement
  THEN IF CurStatement.kind = "Assign"
       THEN LET rv == CurStatement.rvalue
            IN CASE rv.kind \in {"Use", "UnaryOp"} -> {rv.operand}
                 [] rv.kind = "BinaryOp" -> {rv.left}
                 [] OTHER -> {}
       ELSE {}
  ELSE IF AtTerminator
  THEN LET t == program[fi].blocks[bi].terminator
       IN CASE t.kind = "Return" -> Range(t.operand)
            [] t.kind = "SwitchInt" -> {t.discriminant}
            [] OTHER -> {}
  ELSE {}

\* C10: while the body of function g is compiled, locals holds exactly the
\* indices of g's locals, each bound to the alloca of that name in g's entry
\* block; an item that starts with a Copy or Move of a local that g does not
\* have fails with "Unknown local: <index>", whatever locals the functions
\* compiled before had; and every load and store of the module addresses an
\* alloca of the entry block of its own function.
C10_LocalsPerFunction ==
  /\ [](InBody =>
          /\ DOMAIN locals = 0..(Len(program[fi].locals) - 1)
          /\ \A l \in DOMAIN locals : IsSlot(fi, locals[l], "local_" \o ToString(l)))
  /\ [][\A o \in FirstOperand :
          (o.kind \in {"Copy", "Move"} /\ o.local >= Len(program[fi].locals)) =>
            /\ pc' = "done"
            /\ result' = Failed(Err("Unknown local: ", ToString(o.local)))]_vars
  /\ [](\A i \in StartedFns :
          \A p \in 1..Len(module[Handle(i)].blocks) :
            \A x \in Range(module[Handle(i)].blocks[p].instrs) :
              x.op \in {"load", "store"} =>
                \E l \in 0..(Len(program[i].locals) - 1) :
                  IsSlot(i, x.ptr, "local_" \o ToString(l)))

\* The second function failed on a local it does not have and the first,
\* compiled before it, has and loads.
C10_Witness ==
  /\ pc = "done"
  /\ fi = 2
  /\ result.status = "err"
  /\ \E l \in 0..(Len(program[1].locals) - 1) :
       /\ l >= Len(program[2].locals)
       /\ result.err = Err("Unknown local: ", ToString(l))
       /\ \E p \in 1..Len(module[Handle(1)].blocks) :
            \E x \in Range(module[Handle(1)].blocks[p].instrs) :
              x.op = "load" /\ IsSlot(1, x.ptr, "local_" \o ToString(l))

(***************************************************************************)
(* Calls as values.                                                        *)
(***************************************************************************)
\* The functions of the program that return no value: return_ty is Unit.
UnitFns == {i \in FnIndices : program[i].return_ty = "Unit"}

\* The call instructions of the module, as <<function, block, index>>.
CallSites ==
  {c \in UNION {UNION {{<<h, p, j>> : j \in 1..Len(module[h].blocks[p].instrs)} :
                         p \in 1..Len(module[h].blocks)} :
                  h \in 1..Len(module)} :
     module[c[1]].blocks[c[2]].instrs[c[3]].op = "call"}

CalleeOf(c) == module[c[1]].blocks[c[2]].instrs[c[3]].callee

\* The call sites whose callee was declared for a function returning Unit.
UnitCallSites ==
  {c \in CallSites : \E i \in UnitFns : functions[program[i].name] = CalleeOf(c)}

\* compile is at an Assign of a Call that resolves and whose arguments all
\* compile.
AtResolvedCall ==
  /\ AtStatement
  /\ CurStatement.kind = "Assign"
  /\ CurStatement.rvalue.kind = "Call"
  /\ CurStatement.rvalue.func \in DOMAIN functions
  /\ \A o \in Range(CurStatement.rvalue.args) :
       o.kind \in {"Copy", "Move"} => o.local \in DOMAIN locals

IrCalls == {i \in DOMAIN emits : emits[i].op = "get_llvm_ir"}

Read(p, lossy) == IF lossy THEN from_utf8_lossy(p.bytes) ELSE p.bytes
\* The C string returned for a value of the reference map.
Returned(v, lossy) == IF lossy THEN NewCString(v) ELSE CStr(v)

\* The reference map after a call: set with no null argument inserts or
\* overwrites, remove with no null argument deletes.
RefStep(ref, c, lossy) ==
  IF c.op = "set" /\ ~c.m.null /\ ~c.key.null /\ ~c.value.null
  THEN (Read(c.key, lossy) :> Read(c.value, lossy)) @@ ref
  ELSE IF c.op = "remove" /\ ~c.m.null /\ ~c.key.null
  THEN [k \in DOMAIN ref \ {Read(c.key, lossy)} |-> ref[k]]
  ELSE ref

\* What the reference map ref says call c returns.
RefReturn(ref, c, lossy) ==
  LET present == ~c.m.null /\ ~c.key.null /\ Read(c.key, lossy) \in DOMAIN ref
  IN CASE c.op = "len" -> IF c.m.null THEN 0 ELSE Cardinality(DOMAIN ref)
       [] c.op = "get" ->
            IF present THEN Returned(ref[Read(c.key, lossy)], lossy) ELSE NullPtr
       [] c.op = "contains" -> present
       [] c.op = "remove" -> present
       [] OTHER -> "()"

RECURSIVE RefMap(_, _)
\* The reference map after the first n calls.
RefMap(n, lossy) ==
  IF n = 0 THEN EmptyMap ELSE RefStep(RefMap(n - 1, lossy), log[n], lossy)

\* Every key and value passed so far is well-formed UTF-8.
AllUtf8 ==
  \A i \in DOMAIN log :
    /\ as_bytes(from_utf8_lossy(log[i].key.bytes)) = log[i].key.bytes
    /\ as_bytes(from_utf8_lossy(log[i].value.bytes)) = log[i].value.bytes

\* C13 as claimed: every call returns what a reference finite map from the
\* keys passed to the values passed returns.
C13_Original ==
  log # <<>> =>
    log[Len(log)].ret
      = RefReturn(RefMap(Len(log) - 1, FALSE), log[Len(log)], FALSE)

\* C13, amended: the map is a reference finite map of the strings that
\* to_string_lossy reads from the keys and values passed: every call
\* returns what that reference map returns (get the UTF-8 bytes of the
\* stored string), a call with a null argument changes nothing, and as long
\* as every key and value passed is well-formed UTF-8 this is the reference
\* map of the C strings themselves.
C13_LossyMap ==
  log # <<>> =>
    LET n == Len(log)
        c == log[n]
    IN /\ inner = RefMap(n, TRUE)
       /\ c.ret = RefReturn(RefMap(n - 1, TRUE), c, TRUE)
       /\ (c.m.null \/ c.key.null \/ (c.op = "set" /\ c.value.null)) =>
            inner = RefMap(n - 1, TRUE)
       /\ AllUtf8 => c.ret = RefReturn(RefMap(n - 1, FALSE), c, FALSE)

\* A value set under a key that is not UTF-8 is overwritten under another
\* such key and read back.
C13_Witness ==
  /\ Len(log) = 3
  /\ log[1].op = "set" /\ ~log[1].m.null /\ log[1].key = CStr(<<255>>)
  /\ log[1].value = CStr(<<255>>)
  /\ log[2].op = "set" /\ ~log[2].m.null /\ log[2].key = CStr(<<254>>)
  /\ log[2].value = CStr(<<195, 169>>)
  /\ log[3].op = "get" /\ ~log[3].m.null /\ log[3].key = CStr(<<255>>)
  /\ log[3].ret = CStr(<<195, 169>>)

(***************************************************************************)
(* Where the instructions of a MIR block go.                               *)
(***************************************************************************)
\* The instructions of the builder's block after the step.
NewIns == module'[builder.fn].blocks[builder.bb].instrs

\* The instructions the step appended to the builder's block.
Appended == SubSeq(NewIns, Len(CurIns) + 1, Len(NewIns))

\* C14: while the items of MIR block i of a function are compiled the
\* builder is at that function's bb_i; compiling an item changes the module
\* only by appending to bb_i: a statement appends no terminator, the
\* terminator appends one at most and last; statements are taken in input
\* order, then the terminator, then the next block; and a block the loop
\* has not reached yet is still empty.
C14_BlockEmission ==
  /\ [](pc = "statements" => builder = BlockRef(fi, bi - 1))
  /\ [](pc \in {"blocks", "statements"} =>
          \A b \in 0..(Len(program[fi].blocks) - 1) :
            (b > bi - 1 \/ (b = bi - 1 /\ pc = "blocks")) =>
              NativeBlock(fi, b).instrs = <<>>)
  /\ [][pc = "statements" =>
          /\ module' = WithIns(builder, NewIns)
          /\ Len(NewIns) >= Len(CurIns)
          /\ SubSeq(NewIns, 1, Len(CurIns)) = CurIns
          /\ \A j \in 1..Len(Appended) :
               Appended[j].op \in TerminatorOps => AtTerminator /\ j = Len(Appended)
          /\ fi' = fi
          /\ (AtStatement /\ pc' # "done") => (pc' = pc /\ bi' = bi /\ si' = si + 1)
          /\ (AtTerminator /\ pc' # "done") => (pc' = "blocks" /\ bi' = bi + 1)]_vars

\* A compiled function of two blocks, each with the instructions of a
\* statement and a terminator.
C14_Witness ==
  /\ Succeeded
  /\ \E i \in FnIndices :
       /\ Len(program[i].blocks) = 2
       /\ \A b \in 0..1 :
            LET ins == NativeBlock(i, b).instrs
            IN /\ Len(ins) >= 3
               /\ Len(program[i].blocks[b + 1].statements) >= 1
               /\ ins[Len(ins)].op \in TerminatorOps

(***************************************************************************)
(* The silent paths and the two failures beside them.                      *)
(***************************************************************************)
CurTerminator == program[fi].blocks[bi].terminator
Bound(b) == b \in 0..(Len(program[fi].blocks) - 1)
Compiles(o) == o.kind \in {"Copy", "Move"} => o.local \in DOMAIN locals
GoesOn == pc' # "done" /\ result' = Running

\* The pairs of ts whose target has a block, in order, as switch cases.
BoundCases(ts) ==
  LET bound == SelectSeq(ts, LAMBDA t : Bound(t[2]))
  IN [j \in 1..Len(bound) |-> <<ConstI64(bound[j][1]), BlockRef(fi, bound[j][2])>>]

\* C15: an Assign to a local with no slot compiles its rvalue, fails as the
\* rvalue fails and otherwise goes on without a store; a Goto to an index
\* with no block goes on and emits nothing; a SwitchInt of other than one
\* target, with its discriminant compiled and its otherwise bound, goes on
\* with a switch of exactly the cases whose target has a block; a SwitchInt
\* whose discriminant compiles fails with "Missing otherwise block" when
\* otherwise has no block, and a single-target one whose otherwise has a
\* block fails with "Missing then block" when its target has none.
C15_SilentPaths ==
  /\ [][(AtStatement /\ CurStatement.kind = "Assign"
           /\ CurStatement.place \notin DOMAIN locals) =>
          LET value == compile_rvalue(CurIns, CurStatement.rvalue)
          IN /\ NewIns = value.ins
             /\ \A j \in 1..Len(Appended) : Appended[j].op # "store"
             /\ IF value.err # NoErr
                THEN pc' = "done" /\ result' = Failed(value.err)
                ELSE GoesOn]_vars
  /\ [][(AtTerminator /\ CurTerminator.kind = "Goto"
           /\ ~Bound(CurTerminator.target)) =>
          (GoesOn /\ NewIns = CurIns)]_vars
  /\ [][(AtTerminator /\ CurTerminator.kind = "SwitchInt"
           /\ Compiles(CurTerminator.discriminant)) =>
          LET t == CurTerminator
          IN /\ ~Bound(t.otherwise) =>
                  /\ pc' = "done"
                  /\ result' = Failed(Err("Missing otherwise block", ""))
             /\ (Bound(t.otherwise) /\ Len(t.targets) = 1
                   /\ ~Bound(t.targets[1][2])) =>
                  /\ pc' = "done"
                  /\ result' = Failed(Err("Missing then block", ""))
             /\ (Bound(t.otherwise) /\ Len(t.targets) # 1) =>
                  /\ GoesOn
                  /\ NewIns[Len(NewIns)].op = "switch"
                  /\ NewIns[Len(NewIns)].default = BlockRef(fi, t.otherwise)
                  /\ NewIns[Len(NewIns)].cases = BoundCases(t.targets)]_vars

\* compile succeeded on a function with all three: an Assign to a local
\* with no slot after which the block holds a load and no store, a switch
\* with fewer cases than targets, and a block left empty by its Goto.
C15_Witness ==
  /\ Succeeded
  /\ Len(program) = 1
  /\ Len(program[1].blocks) = 2
  /\ LET b0 == program[1].blocks[1]
         b1 == program[1].blocks[2]
         ins == NativeBlock(1, 0).instrs
     IN /\ Len(b0.statements) = 1
        /\ b0.statements[1].kind = "Assign"
        /\ b0.statements[1].place >= Len(program[1].locals)
        /\ ins[1].op = "load"
        /\ \A j \in 1..Len(ins) : ins[j].op # "store"
        /\ b0.terminator.kind = "SwitchInt"
        /\ Len(b0.terminator.targets) = 3
        /\ Len(ins[Len(ins)].cases) = 1
        /\ b1.terminator.kind = "Goto"
        /\ b1.terminator.target >= 2
        /\ NativeBlock(1, 1).instrs = <<>>

(***************************************************************************)
(* Returns and the declared return type.                                   *)
(***************************************************************************)
\* The return instructions of the i-th function, wherever they are.
Returns(i) ==
  UNION {{x \in Range(module[Handle(i)].blocks[p].instrs) : x.op = "ret"} :
           p \in 1..Len(module[Handle(i)].blocks)}

\* C16: for well-formed input every return instruction of a function agrees
\* with the return type the function was declared with: it returns no value
\* exactly when the function was declared without a return value; so the
\* returns of a Unit-returning function that ends in Return(None) match its
\* signature.
C16_ReturnsMatchSignature ==
  WellFormed =>
    \A i \in StartedFns : \A x \in Returns(i) :
      (x.val = <<>>) <=> (module[Handle(i)].ret = "void")

====
